---------------------------- MODULE Spec2Model ----------------------------
(***************************************************************************)
(* Model of the document-layout detection pipeline                         *)
(*   src/src/detect/doc_detector.cpp  (detectDocLayout)                    *)
(*   src/src/native_lib.cpp           (initModel, detectLayout,            *)
(*                                     detectLayoutFromBytes)              *)
(*                                                                         *)
(* float values are modelled as exact rationals <<n, d>> in lowest terms   *)
(* with d > 0.  Every value used below (ratios of the image sizes, their   *)
(* inverses and the products with the raw coordinates) is either exactly   *)
(* representable in binary32 or rounds to the rational computed here.      *)
(* NaN, infinities and class ids outside the range of int are not part of  *)
(* the input domain: the float-to-int conversion of line 154 is undefined  *)
(* for them.                                                               *)
(***************************************************************************)
EXTENDS Integers, Sequences, FiniteSets, TLC

\* ----------------------------------------------------------------- bounds
\* number of concurrently dispatched boundary calls (std::async workers)
NumThreads == 2
\* largest number of raw detections N in an output tensor
MaxRows == 2

Threads == 1..NumThreads

\* ------------------------------------------------------ float arithmetic
Abs(n) == IF n < 0 THEN -n ELSE n

RECURSIVE GCD(_, _)
GCD(a, b) == IF b = 0 THEN a ELSE GCD(b, a % b)

\* the rational n/d (d > 0) in lowest terms
Rat(n, d) == LET g == GCD(Abs(n), d) IN
             IF g = 0 THEN <<0, 1>> ELSE <<n \div g, d \div g>>

FromInt(n) == <<n, 1>>
Zero == FromInt(0)
One == FromInt(1)

RatMul(a, b) == Rat(a[1] * b[1], a[2] * b[2])

\* a / b for b # 0
RatDiv(a, b) == IF b[1] > 0 THEN Rat(a[1] * b[2], a[2] * b[1])
                ELSE Rat(-(a[1] * b[2]), a[2] * (-b[1]))

RatLT(a, b) == a[1] * b[2] < b[1] * a[2]
RatGE(a, b) == ~RatLT(a, b)
RatLE(a, b) == ~RatLT(b, a)

\* std::min(a, b) is (b < a) ? b : a ; std::max(a, b) is (a < b) ? b : a
StdMin(a, b) == IF RatLT(b, a) THEN b ELSE a
StdMax(a, b) == IF RatLT(a, b) THEN b ELSE a

\* static_cast<int>(float): truncation toward zero
StaticCastInt(r) == IF r[1] >= 0 THEN r[1] \div r[2] ELSE -((-r[1]) \div r[2])

\* ---------------------------------------------------------- the taxonomy
\* DOC_CLASSES is declared in include/doc_detector.h; only its length and
\* the lookup by index are used by the decoder.
DOC_CLASSES == <<"class_0", "class_1", "class_2", "class_3">>

\* ---------------------------------------------------------------- images
Mat(cols, rows) == [cols |-> cols, rows |-> rows]

\* cv::Mat::empty()
MatEmpty(m) == m.cols = 0 \/ m.rows = 0

target_width == 640
target_height == 640

\* preprocessImage: plain stretch to the target size; the scale factor is
\* (target_width / original_width, target_height / original_height)
preprocessImage(image, tw, th) ==
    [resized |-> Mat(tw, th),
     scale_factor |-> <<Rat(tw, image.cols), Rat(th, image.rows)>>]

\* ------------------------------------------------- model schema adapter
\* bool is_l_model = (num_inputs == 3);
is_l_model(num_inputs) == num_inputs = 3

\* the tensor names handed to session.Run
InputNames(is_l) ==
    IF is_l THEN <<"im_shape", "image", "scale_factor">>
    ELSE <<"image", "scale_factor">>

\* std::vector<float> l_scale_factor = {1.0f, 1.0f};
l_scale_factor == <<One, One>>

\* the tensors handed to session.Run, in the order of InputNames
InputTensors(is_l, image, resized, scale_factor) ==
    IF is_l
    THEN << <<FromInt(image.rows), FromInt(image.cols)>>,
            <<1, 3, resized.rows, resized.cols>>,
            l_scale_factor >>
    ELSE << <<1, 3, resized.rows, resized.cols>>,
            scale_factor >>

\* ------------------------------------------------------ detection decoder
\* fault seeding: the scale factor applied without being inverted
InvScaleNotInverted(is_l, s) == IF is_l THEN One ELSE s

\* fault seeding: the resize ratio inverted whatever the schema
InvScaleAlways(is_l, s) == RatDiv(One, s)

\* float inv_scale_x = is_l_model ? 1.0f : (1.0f / scale_factor[0]);
InvScale(is_l, s) == IF is_l THEN One ELSE RatDiv(One, s)

\* std::max(0.0f, std::min(v, static_cast<float>(bound)))
Clamp(v, bound) == StdMax(Zero, StdMin(v, FromInt(bound)))

\* fault seeding: the threshold compared with > instead of >=
PassesStrict(score, class_id, conf_threshold) ==
    /\ RatLT(conf_threshold, score)
    /\ class_id >= 0
    /\ class_id < Len(DOC_CLASSES)

\* if (score >= conf_threshold && class_id >= 0 && class_id < size)
Passes(score, class_id, conf_threshold) ==
    /\ RatGE(score, conf_threshold)
    /\ class_id >= 0
    /\ class_id < Len(DOC_CLASSES)

\* the body of the loop for row i (0-based) of the flat output buffer
DecodeRow(output_data, i, image, inv_scale_x, inv_scale_y) ==
    LET class_id == StaticCastInt(output_data[i * 6 + 0 + 1])
        score == output_data[i * 6 + 1 + 1]
        x1 == output_data[i * 6 + 2 + 1]
        y1 == output_data[i * 6 + 3 + 1]
        x2 == output_data[i * 6 + 4 + 1]
        y2 == output_data[i * 6 + 5 + 1]
    IN [x1 |-> Clamp(RatMul(x1, inv_scale_x), image.cols),
        y1 |-> Clamp(RatMul(y1, inv_scale_y), image.rows),
        x2 |-> Clamp(RatMul(x2, inv_scale_x), image.cols),
        y2 |-> Clamp(RatMul(y2, inv_scale_y), image.rows),
        score |-> score,
        class_id |-> class_id,
        class_name |-> DOC_CLASSES[class_id + 1]]

\* for (int i = 0; i < num_detections; i++) { ... results.push_back(box); }
RECURSIVE DecodeLoop(_, _, _, _, _, _, _, _)
DecodeLoop(output_data, i, num_detections, conf_threshold, image, inv_scale_x, inv_scale_y, results) ==
    IF i >= num_detections THEN results
    ELSE LET class_id == StaticCastInt(output_data[i * 6 + 0 + 1])
             score == output_data[i * 6 + 1 + 1]
         IN DecodeLoop(output_data, i + 1, num_detections, conf_threshold,
                       image, inv_scale_x, inv_scale_y,
                       IF Passes(score, class_id, conf_threshold)
                       THEN Append(results,
                                   DecodeRow(output_data, i, image,
                                             inv_scale_x, inv_scale_y))
                       ELSE results)

\* fault seeding: only the image library's exception is caught
CaughtOnlyCv(e) == e = "cv::Exception"

\* catch (const Ort::Exception&) / (const cv::Exception&) / (const std::exception&)
Caught(e) == e \in {"Ort::Exception", "cv::Exception", "std::exception"}

\* ------------------------------------------------------- boundary payloads
RECURSIVE Pow10(_)
Pow10(k) == IF k = 0 THEN 1 ELSE 10 * Pow10(k - 1)

\* operator<< with std::fixed and std::setprecision(digits): the value in
\* units of 10^-digits, rounded to nearest, ties to even
Fixed(r, digits) ==
    LET n == r[1] * Pow10(digits)
        d == r[2]
        q == n \div d
        rem == n - q * d
    IN <<IF 2 * rem < d THEN q
         ELSE IF 2 * rem > d THEN q + 1
         ELSE IF q % 2 = 0 THEN q ELSE q + 1, digits>>

\* one "{...}" element of the "detections" array
BoxJson(box) ==
    [x1 |-> Fixed(box.x1, 1), y1 |-> Fixed(box.y1, 1),
     x2 |-> Fixed(box.x2, 1), y2 |-> Fixed(box.y2, 1),
     score |-> Fixed(box.score, 4),
     class_id |-> box.class_id, class_name |-> box.class_name]

\* the detections payload of the boundary layer (inference_time_ms, a
\* wall-clock reading, is left out)
DetectionsPayload(detections, width, height) ==
    [kind |-> "detections",
     detections |-> [i \in 1..Len(detections) |-> BoxJson(detections[i])],
     count |-> Len(detections),
     image_width |-> width, image_height |-> height]

\* {"error":"Could not load image","code":"IMAGE_LOAD_FAILED"}
ErrorPayload ==
    [kind |-> "error", error |-> "Could not load image",
     code |-> "IMAGE_LOAD_FAILED"]

\* an exception that leaves the std::async task is rethrown by get() in
\* the exported function: no payload is returned
ExceptionEscapes(e) == [kind |-> "exception", what |-> e]

NoResponse == [kind |-> "none"]

\* --------------------------------------------------- the runtime (ONNX)
\* the model files of the deployment and the number of inputs each declares
\* (session.GetInputCount()); "" is the unset configuration slot
NoPath == ""
ModelPaths == {"M.onnx", "L.onnx", "one_input.onnx", "four_input.onnx"}

NumInputsOf(path) ==
    CASE path = "M.onnx" -> 2
      [] path = "L.onnx" -> 3
      [] path = "one_input.onnx" -> 1
      [] path = "four_input.onnx" -> 4
      [] OTHER -> 0

\* Ort::Session(env, path, options): a path that names no model file always
\* throws; loading an existing file succeeds or throws (I/O, allocation)
CreateOutcomes(path) == IF path \in ModelPaths THEN {TRUE, FALSE} ELSE {FALSE}

\* session.Run validates the feed against the inputs the model declares
FeedAccepted(num_inputs, names) == Len(names) = num_inputs

\* ------------------------------------------ function-local static session
\* fault seeding: a session that is not static, constructed by every call
NeedsInitAlways(guard) == TRUE

\* the guard of `static Ort::Session session(...)`: the initializer runs when
\* control first passes through the declaration
NeedsInit(guard) == guard = "uninit"

\* fault seeding: the guard set even though the initializer threw
GuardAlwaysDone(ok) == "done"

\* the guard after the initializer ends: set when it returned, released for
\* the next call to try again when it threw
GuardAfterCreate(ok) == IF ok THEN "done" ELSE "uninit"

\* -------------------------------------------------------- input domains
Row(class_id, score, x1, y1, x2, y2) ==
    <<class_id, score, FromInt(x1), FromInt(y1), FromInt(x2), FromInt(y2)>>

\* [class_id=2, score=0.87, x1=100, y1=50, x2=300, y2=200]
RowText == Row(FromInt(2), Rat(87, 100), 100, 50, 300, 200)
\* [class_id=0, score=0.95, x1=10, y1=10, x2=50, y2=50]
RowTitle == Row(FromInt(0), Rat(95, 100), 10, 10, 50, 50)
\* far outside the frame, negative, and y1 > y2; score on the threshold 0.5
RowWild == Row(FromInt(1), Rat(1, 2), -20, 700, 10000, -5)
\* class id one past the taxonomy
RowBadClass == Row(FromInt(Len(DOC_CLASSES)), Rat(99, 100), 1, 2, 3, 4)
\* class id -1
RowNegClass == Row(FromInt(-1), Rat(99, 100), 1, 2, 3, 4)
\* class id 2.7 (truncates to 2), low score
RowFraction == Row(Rat(27, 10), Rat(3, 10), 300, 200, 100, 50)

RawRows == {RowText, RowTitle, RowWild, RowBadClass, RowNegClass, RowFraction}

SeqsUpTo(S, n) == UNION {[1..k -> S] : k \in 0..n}

\* the [N, 6] output tensor as the flat buffer GetTensorMutableData returns
RECURSIVE Flatten(_)
Flatten(rows) == IF rows = <<>> THEN <<>> ELSE Head(rows) \o Flatten(Tail(rows))

EmptyMat == Mat(0, 0)
Images == {Mat(1280, 960), Mat(640, 640), Mat(800, 600)}
Thresholds == {Zero, Rat(1, 2), Rat(9, 10)}
Outputs == SeqsUpTo(RawRows, MaxRows)
ChannelCounts == {1, 3, 4}

\* the inputs of the concurrent specification
FewPaths == {"M.onnx", "L.onnx"}
FewImages == {Mat(1280, 960)}
FewThresholds == {Rat(1, 2)}
FewOutputs == {<<>>, <<RowText>>}
FewChannelCounts == {3, 4}

\* ----------------------------------------------------------------- state
VARIABLES
    MODEL_PATH,    \* ConfigManager::GetInstance().MODEL_PATH
    sessionGuard,  \* guard of the static session: "uninit", "busy", "done"
    sessionPath,   \* the model path the static session was constructed with
    createdCount,  \* how many times the session constructor has returned
    pc,            \* per worker: where its call stands
    call,          \* per worker: entry point and arguments of its call
    image,         \* per worker: the cv::Mat handed to detectDocLayout
    frame,         \* per worker: the locals of detectDocLayout
    response       \* per worker: what the exported function returned

vars == <<MODEL_PATH, sessionGuard, sessionPath, createdCount, pc, call, image, frame, response>>

NoCall == [entry |-> "none", channels |-> 0, conf_threshold |-> Zero]

\* detectDocLayout's locals before the call
NoFrame ==
    [invoked |-> FALSE,          \* detectDocLayout was entered
     triedCreate |-> FALSE,      \* this call ran the session initializer
     fault |-> "none",           \* what threw: "create", "preprocess", "run"
     thrown |-> "none",          \* the exception that left detectDocLayout
     num_inputs |-> 0,
     is_l_model |-> FALSE,
     scale_factor |-> <<Zero, Zero>>,
     input_names |-> <<>>,       \* what was handed to session.Run
     input_tensors |-> <<>>,
     submitted |-> FALSE,        \* session.Run was called
     output_data |-> <<>>,
     num_detections |-> 0,
     results |-> <<>>]

Init ==
    /\ MODEL_PATH = NoPath
    /\ sessionGuard = "uninit"
    /\ sessionPath = NoPath
    /\ createdCount = 0
    /\ pc = [t \in Threads |-> "idle"]
    /\ call = [t \in Threads |-> NoCall]
    /\ image = [t \in Threads |-> EmptyMat]
    /\ frame = [t \in Threads |-> NoFrame]
    /\ response = [t \in Threads |-> NoResponse]

\* ------------------------------------------------------------- operations
\* fault seeding: detectDocLayout without its empty-image check
NoEmptyImageGuard(img) == FALSE

\* if (image.empty()) return results;   at the top of detectDocLayout
EmptyImageGuard(img) == MatEmpty(img)

\* what the caller of detectDocLayout hands back: the boundary lambdas build
\* the detections payload from the returned vector; an exception that left
\* detectDocLayout leaves the lambda too
ResponseOf(entry, fr, width, height) ==
    IF entry = "direct" THEN NoResponse
    ELSE IF fr.thrown # "none" THEN ExceptionEscapes(fr.thrown)
    ELSE DetectionsPayload(fr.results, width, height)

\* the end of a detectDocLayout call in which exception e ("none": no
\* exception) was thrown inside the try block, and of the boundary call
Finish(t, fr, e) ==
    LET out == [fr EXCEPT !.thrown = IF e # "none" /\ ~Caught(e) THEN e ELSE "none"]
    IN /\ frame' = [frame EXCEPT ![t] = out]
       /\ response' = [response EXCEPT ![t] = ResponseOf(call[t].entry, out, image[t].cols, image[t].rows)]
       /\ pc' = [pc EXCEPT ![t] = "returned"]

\* detectDocLayout(image, conf_threshold), lines 7-17: up to the try block
CallDetect(t, c, img) ==
    /\ call' = [call EXCEPT ![t] = c]
    /\ image' = [image EXCEPT ![t] = img]
    /\ IF EmptyImageGuard(img)
       THEN /\ frame' = [frame EXCEPT ![t] = [NoFrame EXCEPT !.invoked = TRUE]]
            /\ response' = [response EXCEPT ![t] = ResponseOf(c.entry, NoFrame, img.cols, img.rows)]
            /\ pc' = [pc EXCEPT ![t] = "returned"]
       ELSE /\ frame' = [frame EXCEPT ![t] = [NoFrame EXCEPT !.invoked = TRUE]]
            /\ response' = response
            /\ pc' = [pc EXCEPT ![t] = "static_init"]
    /\ UNCHANGED <<MODEL_PATH, sessionGuard, sessionPath, createdCount>>

\* void initModel(const char* model_path)
initModel(model_path) ==
    /\ MODEL_PATH' = model_path
    /\ UNCHANGED <<sessionGuard, sessionPath, createdCount, pc, call, image, frame, response>>

\* char* detectLayout(img_path, conf_threshold): img is what cv::imread gives
detectLayout(t, imgs, thresholds) ==
    /\ pc[t] = "idle"
    /\ \E img \in imgs, th \in thresholds :
         LET c == [entry |-> "path", channels |-> 3, conf_threshold |-> th]
         IN IF MatEmpty(img)
            THEN /\ call' = [call EXCEPT ![t] = c]
                 /\ image' = [image EXCEPT ![t] = img]
                 /\ response' = [response EXCEPT ![t] = ErrorPayload]
                 /\ pc' = [pc EXCEPT ![t] = "returned"]
                 /\ UNCHANGED <<MODEL_PATH, sessionGuard, sessionPath, createdCount, frame>>
            ELSE CallDetect(t, c, img)

\* char* detectLayoutFromBytes(image_data, width, height, channels,
\* conf_threshold): m is the cv::Mat(height, width, cv_type, image_data)
detectLayoutFromBytes(t, mats, channelCounts, thresholds) ==
    /\ pc[t] = "idle"
    /\ \E m \in mats, channels \in channelCounts, th \in thresholds :
         LET c == [entry |-> "bytes", channels |-> channels, conf_threshold |-> th]
         IN IF MatEmpty(m) /\ channels # 3
            THEN \* cv::cvtColor rejects an empty source with cv::Exception
                 /\ call' = [call EXCEPT ![t] = c]
                 /\ image' = [image EXCEPT ![t] = m]
                 /\ response' = [response EXCEPT ![t] = ExceptionEscapes("cv::Exception")]
                 /\ pc' = [pc EXCEPT ![t] = "returned"]
                 /\ UNCHANGED <<MODEL_PATH, sessionGuard, sessionPath, createdCount, frame>>
            ELSE CallDetect(t, c, m)

\* detectDocLayout called by a caller of the pipeline itself
detectDocLayout(t, imgs, thresholds) ==
    /\ pc[t] = "idle"
    /\ \E img \in imgs, th \in thresholds :
         CallDetect(t, [entry |-> "direct", channels |-> 3, conf_threshold |-> th], img)

\* control reaches `static Ort::Session session(...)` and the guard is free:
\* this thread runs the initializer, with MODEL_PATH as it is now
SessionInitBegin(t) ==
    /\ pc[t] = "static_init"
    /\ NeedsInit(sessionGuard)
    /\ sessionGuard' = "busy"
    /\ sessionPath' = MODEL_PATH
    /\ frame' = [frame EXCEPT ![t].triedCreate = TRUE]
    /\ pc' = [pc EXCEPT ![t] = "creating"]
    /\ UNCHANGED <<MODEL_PATH, createdCount, call, image, response>>

\* the session constructor returns, or throws Ort::Exception
SessionInitEnd(t) ==
    /\ pc[t] = "creating"
    /\ \E ok \in CreateOutcomes(sessionPath) :
         /\ sessionGuard' = GuardAfterCreate(ok)
         /\ IF ok
            THEN /\ createdCount' = createdCount + 1
                 /\ sessionPath' = sessionPath
                 /\ pc' = [pc EXCEPT ![t] = "ready"]
                 /\ UNCHANGED <<frame, response>>
            ELSE /\ createdCount' = createdCount
                 /\ sessionPath' = NoPath
                 /\ Finish(t, [frame[t] EXCEPT !.fault = "create"], "Ort::Exception")
    /\ UNCHANGED <<MODEL_PATH, call, image>>

\* control reaches the static session and it is already initialized
SessionReady(t) ==
    /\ pc[t] = "static_init"
    /\ sessionGuard = "done"
    /\ pc' = [pc EXCEPT ![t] = "ready"]
    /\ UNCHANGED <<MODEL_PATH, sessionGuard, sessionPath, createdCount, call, image, frame, response>>

\* what session.Run does with the feed: throw, or return an output tensor
RunOutcomes(num_inputs, names, outputs) ==
    {[ok |-> FALSE, rows |-> <<>>]} \cup
    (IF FeedAccepted(num_inputs, names)
     THEN {[ok |-> TRUE, rows |-> o] : o \in outputs}
     ELSE {})

\* lines 25-183: schema selection, preprocessing, session.Run, decoding
RunPipeline(t, outputs) ==
    /\ pc[t] = "ready"
    /\ IF MatEmpty(image[t])
       THEN \* cv::resize rejects an empty source with cv::Exception
            Finish(t, [frame[t] EXCEPT !.fault = "preprocess"], "cv::Exception")
       ELSE LET num_inputs == NumInputsOf(sessionPath)
                pre == preprocessImage(image[t], target_width, target_height)
                is_l == is_l_model(num_inputs)
                names == InputNames(is_l)
                fed == [frame[t] EXCEPT !.num_inputs = num_inputs,
                                        !.is_l_model = is_l,
                                        !.scale_factor = pre.scale_factor,
                                        !.input_names = names,
                                        !.input_tensors = InputTensors(is_l, image[t], pre.resized, pre.scale_factor),
                                        !.submitted = TRUE]
            IN \E r \in RunOutcomes(num_inputs, names, outputs) :
                 IF ~r.ok
                 THEN Finish(t, [fed EXCEPT !.fault = "run"], "Ort::Exception")
                 ELSE LET output_data == Flatten(r.rows)
                          num_detections == Len(r.rows)
                          inv_scale_x == InvScale(is_l, pre.scale_factor[1])
                          inv_scale_y == InvScale(is_l, pre.scale_factor[2])
                      IN Finish(t, [fed EXCEPT !.output_data = output_data,
                                               !.num_detections = num_detections,
                                               !.results = DecodeLoop(output_data, 0, num_detections, call[t].conf_threshold, image[t], inv_scale_x, inv_scale_y, <<>>)],
                                "none")
    /\ UNCHANGED <<MODEL_PATH, sessionGuard, sessionPath, createdCount, call, image>>

\* the caller takes the response; the worker is free for the next call
Return(t) ==
    /\ pc[t] = "returned"
    /\ pc' = [pc EXCEPT ![t] = "idle"]
    /\ call' = [call EXCEPT ![t] = NoCall]
    /\ image' = [image EXCEPT ![t] = EmptyMat]
    /\ frame' = [frame EXCEPT ![t] = NoFrame]
    /\ response' = [response EXCEPT ![t] = NoResponse]
    /\ UNCHANGED <<MODEL_PATH, sessionGuard, sessionPath, createdCount>>

\* --------------------------------------------------------- specifications
\* calls dispatched concurrently through the boundary layer
Next ==
    \/ \E p \in FewPaths : initModel(p)
    \/ \E t \in Threads : detectLayout(t, FewImages \cup {EmptyMat}, FewThresholds)
    \/ \E t \in Threads : detectLayoutFromBytes(t, FewImages \cup {EmptyMat}, FewChannelCounts, FewThresholds)
    \/ \E t \in Threads : detectDocLayout(t, FewImages \cup {EmptyMat}, FewThresholds)
    \/ \E t \in Threads : SessionInitBegin(t)
    \/ \E t \in Threads : SessionInitEnd(t)
    \/ \E t \in Threads : SessionReady(t)
    \/ \E t \in Threads : RunPipeline(t, FewOutputs)
    \/ \E t \in Threads : Return(t)

Spec == Init /\ [][Next]_vars

\* one caller at a time, over the full input domain of the decoder
NextDecode ==
    \/ \E p \in ModelPaths : initModel(p)
    \/ detectLayout(1, Images \cup {EmptyMat}, Thresholds)
    \/ detectLayoutFromBytes(1, Images \cup {EmptyMat}, ChannelCounts, Thresholds)
    \/ detectDocLayout(1, Images \cup {EmptyMat}, Thresholds)
    \/ SessionInitBegin(1)
    \/ SessionInitEnd(1)
    \/ SessionReady(1)
    \/ RunPipeline(1, Outputs)
    \/ Return(1)

SpecDecode == Init /\ [][NextDecode]_vars

\* ------------------------------------------------- vocabulary of the claims
Returned(t) == pc[t] = "returned"

\* the call of worker t ran the decoder over an output tensor
Decoded(t) == Returned(t) /\ frame[t].submitted /\ frame[t].fault = "none"

\* row i (1-based) of the output tensor the call of worker t received
RawRow(t, i) == SubSeq(frame[t].output_data, (i - 1) * 6 + 1, i * 6)
RawRowsOf(t) == [i \in 1..frame[t].num_detections |-> RawRow(t, i)]

\* 0 <= trunc(c) < taxonomy size, stated without the conversion to int
ClassInRange(c) == RatLT(FromInt(-1), c) /\ RatLT(c, FromInt(Len(DOC_CLASSES)))
TruncOf(c) == CHOOSE k \in 0..(Len(DOC_CLASSES) - 1) :
                  \/ RatLT(c, Zero) /\ k = 0
                  \/ RatGE(c, FromInt(k)) /\ RatLT(c, FromInt(k + 1))

\* the rows a threshold keeps, in row order
KeptRows(rows, th) == SelectSeq(rows, LAMBDA r : RatGE(r[2], th) /\ ClassInRange(r[1]))

\* v limited to [0, bound]
Limited(v, bound) ==
    IF RatLT(v, Zero) THEN Zero
    ELSE IF RatLT(FromInt(bound), v) THEN FromInt(bound) ELSE v

\* C1: every returned box satisfies 0 <= x1 <= x2 <= image_width and
\* 0 <= y1 <= y2 <= image_height, whatever the raw rows were (coordinates
\* outside the frame, negative, or with x1 > x2 or y1 > y2).
C1_BoxOrderedWithinFrame ==
    \A t \in Threads : Returned(t) =>
        \A i \in 1..Len(frame[t].results) :
            LET b == frame[t].results[i]
            IN /\ RatLE(Zero, b.x1) /\ RatLE(b.x1, b.x2)
               /\ RatLE(b.x2, FromInt(image[t].cols))
               /\ RatLE(Zero, b.y1) /\ RatLE(b.y1, b.y2)
               /\ RatLE(b.y2, FromInt(image[t].rows))

\* C2: the returned list is exactly the subsequence of the raw rows with
\* score >= conf_threshold and 0 <= trunc(class_id) < taxonomy size: one
\* box per such row, none for any other row, in row order.
C2_ExactlyTheKeptRows ==
    \A t \in Threads : Decoded(t) =>
        LET kept == KeptRows(RawRowsOf(t), call[t].conf_threshold)
            res == frame[t].results
        IN /\ Len(res) = Len(kept)
           /\ \A i \in 1..Len(kept) :
                /\ res[i].score = kept[i][2]
                /\ res[i].class_id = TruncOf(kept[i][1])
                /\ res[i].class_name = DOC_CLASSES[TruncOf(kept[i][1]) + 1]

\* C2 witness: of two rows the first is dropped for its class and the
\* second, whose score equals the threshold, is kept.
C2_Witness ==
    \E t \in Threads :
        /\ Decoded(t)
        /\ call[t].conf_threshold = Rat(1, 2)
        /\ RawRowsOf(t) = <<RowBadClass, RowWild>>
        /\ Len(frame[t].results) = 1
        /\ frame[t].results[1].class_id = 1

\* the 2-input scenario: 1280x960 image, row [2, 0.87, 100, 50, 300, 200],
\* conf_threshold 0.5
TextScenario(t) ==
    /\ Decoded(t)
    /\ frame[t].num_inputs = 2
    /\ image[t] = Mat(1280, 960)
    /\ call[t].conf_threshold = Rat(1, 2)
    /\ RawRowsOf(t) = <<RowText>>

ScenarioBox(x1, y1, x2, y2) ==
    [x1 |-> FromInt(x1), y1 |-> FromInt(y1), x2 |-> FromInt(x2), y2 |-> FromInt(y2),
     score |-> Rat(87, 100), class_id |-> 2, class_name |-> DOC_CLASSES[3]]

\* C3 as stated: in the scenario the scale factor is (0.5, 0.5) and the row
\* decodes to x1=200, y1=100, x2=600, y2=400, score 0.87, class 2.
C3_ScenarioAsStated ==
    \A t \in Threads : TextScenario(t) =>
        /\ frame[t].scale_factor = <<Rat(1, 2), Rat(1, 2)>>
        /\ frame[t].results = <<ScenarioBox(200, 100, 600, 400)>>

\* C3 amended: in the scenario the scale factor is (640/1280, 640/960) =
\* (1/2, 2/3) and the row decodes to x1=200, y1=75, x2=600, y2=300,
\* score 0.87, class 2, class_name taxonomy[2].
C3_ScenarioAmended ==
    \A t \in Threads : TextScenario(t) =>
        /\ frame[t].scale_factor = <<Rat(1, 2), Rat(2, 3)>>
        /\ frame[t].results = <<ScenarioBox(200, 75, 600, 300)>>

\* C3 witness: the scenario has been run.
C3_Witness == \E t \in Threads : TextScenario(t) /\ Len(frame[t].results) = 1

\* C4: with 3 declared inputs the feed is im_shape (original height, width),
\* image, scale_factor (1, 1), and the kept rows' coordinates are only
\* limited to the frame; with 2 declared inputs the feed is image,
\* scale_factor (the resize ratio preprocessImage returned), and the
\* coordinates are divided by the ratio of their axis and then limited to
\* the frame.
C4_SchemaByInputCount ==
    \A t \in Threads : (Returned(t) /\ frame[t].submitted) =>
        LET f == frame[t]
            w == image[t].cols
            h == image[t].rows
            kept == KeptRows(RawRowsOf(t), call[t].conf_threshold)
            three == f.num_inputs = 3
            X(v) == IF three THEN v ELSE RatDiv(v, f.scale_factor[1])
            Y(v) == IF three THEN v ELSE RatDiv(v, f.scale_factor[2])
        IN /\ three =>
                /\ f.input_names = <<"im_shape", "image", "scale_factor">>
                /\ f.input_tensors[1] = <<FromInt(h), FromInt(w)>>
                /\ f.input_tensors[3] = <<One, One>>
           /\ f.num_inputs = 2 =>
                /\ f.input_names = <<"image", "scale_factor">>
                /\ f.input_tensors[2] = f.scale_factor
           /\ (f.num_inputs \in {2, 3} /\ f.fault = "none") =>
                /\ Len(f.results) = Len(kept)
                /\ \A i \in 1..Len(kept) :
                     /\ f.results[i].x1 = Limited(X(kept[i][3]), w)
                     /\ f.results[i].y1 = Limited(Y(kept[i][4]), h)
                     /\ f.results[i].x2 = Limited(X(kept[i][5]), w)
                     /\ f.results[i].y2 = Limited(Y(kept[i][6]), h)

\* C4 witness: a 3-input call on a 1280x960 image returned the row
\* [0, 0.95, 10, 10, 50, 50] with its coordinates unchanged.
C4_Witness ==
    \E t \in Threads :
        /\ Decoded(t)
        /\ frame[t].num_inputs = 3
        /\ image[t] = Mat(1280, 960)
        /\ RawRowsOf(t) = <<RowTitle>>
        /\ Len(frame[t].results) = 1
        /\ frame[t].results[1].x1 = FromInt(10)
        /\ frame[t].results[1].y2 = FromInt(50)

\* C5: a call in which session creation or the inference run failed returns
\* an empty detection list, and no exception leaves detectDocLayout; the
\* boundary layer then answers with an ordinary payload of zero detections.
C5_FailSoft ==
    \A t \in Threads : (Returned(t) /\ frame[t].fault \in {"create", "run"}) =>
        /\ frame[t].results = <<>>
        /\ frame[t].thrown = "none"
        /\ call[t].entry # "direct" =>
             /\ response[t].kind = "detections"
             /\ response[t].count = 0

\* C5 witness: one call has returned after a failed session creation and
\* another after a failed inference run.
C5_Witness ==
    \E t1, t2 \in Threads :
        /\ Returned(t1) /\ frame[t1].fault = "create"
        /\ Returned(t2) /\ frame[t2].fault = "run" /\ frame[t2].submitted

\* C6: both boundary entry points answer an empty or unreadable source image
\* with the IMAGE_LOAD_FAILED error payload, without invoking the pipeline.
C6_EmptySourceIsErrorPayload ==
    \A t \in Threads :
        (Returned(t) /\ call[t].entry \in {"path", "bytes"} /\ MatEmpty(image[t])) =>
            /\ response[t] = ErrorPayload
            /\ ~frame[t].invoked

\* C7: detectDocLayout on an empty image returns at once with an empty list
\* and no exception, without creating the session or running inference, and
\* the step leaves the session as it was (uncreated when it was uncreated).
C7_EmptyImageReturnsEarly ==
    /\ [](\A t \in Threads : (frame[t].invoked /\ MatEmpty(image[t])) =>
            /\ Returned(t)
            /\ frame[t].results = <<>>
            /\ frame[t].thrown = "none"
            /\ ~frame[t].triedCreate
            /\ ~frame[t].submitted)
    /\ [][\A t \in Threads :
            (pc[t] = "idle" /\ frame'[t].invoked /\ MatEmpty(image'[t])) =>
                /\ pc'[t] = "returned"
                /\ sessionGuard' = sessionGuard
                /\ sessionPath' = sessionPath
                /\ createdCount' = createdCount]_vars

\* C7 witness: an empty-image call to detectDocLayout has returned while no
\* session was ever created.
C7_Witness ==
    \E t \in Threads :
        /\ Returned(t) /\ frame[t].invoked /\ MatEmpty(image[t])
        /\ call[t].entry = "direct"
        /\ sessionGuard = "uninit" /\ createdCount = 0

\* C8: a call against a model that declares an input count other than 2 or
\* 3 submits neither tensor set for inference and returns an empty list.
C8_UnsupportedSchemaNotSubmitted ==
    \A t \in Threads :
        (Returned(t) /\ frame[t].invoked /\ ~MatEmpty(image[t])
            /\ frame[t].fault # "create" /\ NumInputsOf(sessionPath) \notin {2, 3}) =>
                /\ ~frame[t].submitted
                /\ frame[t].input_names = <<>>
                /\ frame[t].results = <<>>

\* C9: the session constructor returns at most once per process; once the
\* session exists it stays the same session, bound to the path it was
\* created with, whatever initModel stores later; and every call that runs
\* inference runs it on that session.
C9_OneSessionPerProcess ==
    /\ [](createdCount <= 1)
    /\ [](\A t \in Threads : frame[t].submitted =>
            /\ sessionGuard = "done"
            /\ createdCount = 1
            /\ frame[t].num_inputs = NumInputsOf(sessionPath))
    /\ [][sessionGuard = "done" =>
            /\ sessionGuard' = "done"
            /\ sessionPath' = sessionPath
            /\ createdCount' = createdCount]_vars

\* C9 witness: two calls have run inference, one of which created the
\* session, and the configured path has since been changed.
C9_Witness ==
    \E t1, t2 \in Threads :
        /\ t1 # t2
        /\ Decoded(t1) /\ frame[t1].triedCreate
        /\ Decoded(t2) /\ ~frame[t2].triedCreate
        /\ createdCount = 1
        /\ MODEL_PATH # sessionPath

\* C10: a call whose session creation fails returns an empty list and
\* leaves the session uncreated; while no session exists the next step of a
\* call that reaches the session is a creation attempt; and no call reaches
\* inference unless a creation succeeded.
C10_FailureNotCached ==
    /\ [][\A t \in Threads : (pc[t] = "creating" /\ pc'[t] = "returned") =>
            /\ sessionGuard' = "uninit"
            /\ createdCount' = createdCount
            /\ frame'[t].fault = "create"
            /\ frame'[t].results = <<>>
            /\ ~frame'[t].submitted]_vars
    /\ [][\A t \in Threads : (pc[t] = "static_init" /\ createdCount = 0 /\ pc'[t] # pc[t]) =>
            /\ pc'[t] = "creating"
            /\ frame'[t].triedCreate]_vars
    /\ [](\A t \in Threads : (pc[t] = "ready" \/ frame[t].submitted) =>
            /\ createdCount >= 1
            /\ sessionGuard = "done")

\* C10 witness: one call has returned empty after its creation attempt
\* failed, and another call then created the session and ran inference.
C10_Witness ==
    \E t1, t2 \in Threads :
        /\ Returned(t1) /\ frame[t1].fault = "create" /\ frame[t1].results = <<>>
        /\ Decoded(t2) /\ frame[t2].triedCreate
        /\ createdCount = 1

=============================================================================
